---------------------------- MODULE Spec2Model ----------------------------
(***************************************************************************)
(* Proof of History generator (Poh) and its verifier, src/src/poh.rs.      *)
(*                                                                         *)
(* A Hash value is a term of the free algebra generated by hash and hashv  *)
(* over a few base digests, so that the hash primitive is collision-free:  *)
(* <<n, root>> is hash applied n times to root, and root is <<b>> for the  *)
(* base digest b or <<x, m>> for hashv(x, m).                              *)
(***************************************************************************)
EXTENDS Integers, Sequences, FiniteSets, TLC

VARIABLES
    initial,          \* the Hash the generator is created with / verify's `initial`
    overflow_checks,  \* the build: TRUE panics on u64 overflow, FALSE wraps
    poh,              \* the Poh struct
    now,              \* the monotonic clock read by Instant::now()
    log,              \* the calls made on poh so far, with what each returned
    panicked,         \* a call on poh panicked
    poh2,             \* a second, independent run: its Poh struct,
    now2,             \*   its clock
    log2,             \*   and its calls
    v_entries,        \* the slice of entries handed to verify
    v_result          \* what verify did with it

vars == <<initial, overflow_checks, poh, now, log, panicked,
          poh2, now2, log2, v_entries, v_result>>

----------------------------------------------------------------------------
(* Bounds *)

MaxU64 == 2        \* u64::MAX, scaled down so that the counter's top is reached
MaxInterval == 1   \* tick durations are 0..MaxInterval
MaxTime == 2       \* the clock runs over 0..MaxTime
MaxCalls == 4      \* calls made on one generator
MaxLen == 2        \* entries in a slice handed to verify

----------------------------------------------------------------------------
(* Option<T>, Hash, hash, hashv *)

None == <<>>

Some(x) == <<x>>

Base(b) == <<0, <<b>>>>

\* the digests given from outside: initial hashes and mixins
Bases == {Base(0), Base(1)}

hash(x) == <<x[1] + 1, x[2]>>

hashv(x, m) == <<0, <<x, m>>>>

\* x hashed k times
Hashed(x, k) == <<x[1] + k, x[2]>>

----------------------------------------------------------------------------
(* struct Poh, struct PohEntry and the methods of Poh *)

PohEntry(num_hashes, id, mixin) ==
    [num_hashes |-> num_hashes, id |-> id, mixin |-> mixin]

Poh_new(last_hash, tick_duration, t) ==
    [last_hash |-> last_hash, num_hashes |-> 0,
     last_tick |-> t, tick_duration |-> tick_duration]

\* u64 + 1: overflow panics when the build checks it, and wraps otherwise
Overflows(n) == n + 1 > MaxU64

WrapU64(n) == n % (MaxU64 + 1)

\* Poh::hash: the result is the struct after the call and whether it panicked
Poh_hash(p, checks) ==
    LET q == [p EXCEPT !.last_hash = hash(p.last_hash)]
    IN  IF Overflows(p.num_hashes) /\ checks
        THEN [poh |-> q, panic |-> TRUE]
        ELSE [poh |-> [q EXCEPT !.num_hashes = WrapU64(p.num_hashes + 1)],
              panic |-> FALSE]

\* record that advances with the plain hash and leaves the mixin out
Poh_record_PlainHash(p, mixin, checks) ==
    IF Overflows(p.num_hashes) /\ checks
    THEN [poh |-> p, ret |-> None, panic |-> TRUE]
    ELSE LET num_hashes == WrapU64(p.num_hashes + 1)
             last_hash == hash(p.last_hash)
         IN  [poh |-> [p EXCEPT !.num_hashes = 0, !.last_hash = last_hash],
              ret |-> Some(PohEntry(num_hashes, last_hash, Some(mixin))),
              panic |-> FALSE]

\* Poh::record
Poh_record(p, mixin, checks) ==
    IF Overflows(p.num_hashes) /\ checks
    THEN [poh |-> p, ret |-> None, panic |-> TRUE]
    ELSE LET num_hashes == WrapU64(p.num_hashes + 1)
             last_hash == hashv(p.last_hash, mixin)
         IN  [poh |-> [p EXCEPT !.num_hashes = 0, !.last_hash = last_hash],
              ret |-> Some(PohEntry(num_hashes, last_hash, Some(mixin))),
              panic |-> FALSE]

\* tick that does not look at the elapsed time
Poh_tick_Eager(p, t1, t2) ==
    IF p.tick_duration # None
    THEN [poh |-> [p EXCEPT !.last_tick = t2, !.num_hashes = 0],
          ret |-> Some(PohEntry(p.num_hashes, p.last_hash, None))]
    ELSE [poh |-> p, ret |-> None]

\* tick that hashes once more before it emits
Poh_tick_Rehash(p, t1, t2) ==
    IF p.tick_duration # None /\ t1 - p.last_tick >= p.tick_duration[1]
    THEN [poh |-> [p EXCEPT !.last_tick = t2, !.num_hashes = 0,
                            !.last_hash = hash(p.last_hash)],
          ret |-> Some(PohEntry(p.num_hashes, hash(p.last_hash), None))]
    ELSE [poh |-> p, ret |-> None]

\* tick that emits without restarting its timer (line 55 dropped)
Poh_tick_NoReset(p, t1, t2) ==
    IF p.tick_duration # None /\ t1 - p.last_tick >= p.tick_duration[1]
    THEN [poh |-> [p EXCEPT !.num_hashes = 0],
          ret |-> Some(PohEntry(p.num_hashes, p.last_hash, None))]
    ELSE [poh |-> p, ret |-> None]

\* tick that emits nothing while no hash was counted
Poh_tick_SkipIdle(p, t1, t2) ==
    IF p.tick_duration # None /\ t1 - p.last_tick >= p.tick_duration[1]
       /\ p.num_hashes # 0
    THEN [poh |-> [p EXCEPT !.last_tick = t2, !.num_hashes = 0],
          ret |-> Some(PohEntry(p.num_hashes, p.last_hash, None))]
    ELSE [poh |-> p, ret |-> None]

\* Poh::tick; t1 is the clock read by elapsed(), t2 the one read by Instant::now()
Poh_tick(p, t1, t2) ==
    IF p.tick_duration # None /\ t1 - p.last_tick >= p.tick_duration[1]
    THEN [poh |-> [p EXCEPT !.last_tick = t2, !.num_hashes = 0],
          ret |-> Some(PohEntry(p.num_hashes, p.last_hash, None))]
    ELSE [poh |-> p, ret |-> None]

----------------------------------------------------------------------------
(* verify *)

\* for _ in 1..entry.num_hashes { last_hash = hash(last_hash) }, k iterations
RECURSIVE HashLoop(_, _)
HashLoop(last_hash, k) ==
    IF k = 0 THEN last_hash ELSE HashLoop(hash(last_hash), k - 1)

\* verify without its assert: a zero count runs the inner loop zero times
RECURSIVE VerifyFrom_NoAssert(_, _, _)
VerifyFrom_NoAssert(last_hash, entries, i) ==
    IF i > Len(entries)
    THEN [outcome |-> "true", at |-> i]
    ELSE LET entry == entries[i]
             h == IF entry.num_hashes = 0 THEN last_hash
                  ELSE HashLoop(last_hash, entry.num_hashes - 1)
             id == IF entry.mixin # None
                   THEN hashv(h, entry.mixin[1])
                   ELSE hash(h)
         IN  IF id # entry.id
             THEN [outcome |-> "false", at |-> i]
             ELSE VerifyFrom_NoAssert(id, entries, i + 1)

\* verify without its inner loop: num_hashes is not replayed
RECURSIVE VerifyFrom_NoLoop(_, _, _)
VerifyFrom_NoLoop(last_hash, entries, i) ==
    IF i > Len(entries)
    THEN [outcome |-> "true", at |-> i]
    ELSE LET entry == entries[i]
         IN  IF entry.num_hashes = 0
             THEN [outcome |-> "panic", at |-> i]
             ELSE LET id == IF entry.mixin # None
                            THEN hashv(last_hash, entry.mixin[1])
                            ELSE hash(last_hash)
                  IN  IF id # entry.id
                      THEN [outcome |-> "false", at |-> i]
                      ELSE VerifyFrom_NoLoop(id, entries, i + 1)

\* verify that does not carry the id over to the next entry (line 84 dropped)
RECURSIVE VerifyFrom_NoAdvance(_, _, _)
VerifyFrom_NoAdvance(last_hash, entries, i) ==
    IF i > Len(entries)
    THEN [outcome |-> "true", at |-> i]
    ELSE LET entry == entries[i]
         IN  IF entry.num_hashes = 0
             THEN [outcome |-> "panic", at |-> i]
             ELSE LET h == HashLoop(last_hash, entry.num_hashes - 1)
                      id == IF entry.mixin # None
                            THEN hashv(h, entry.mixin[1])
                            ELSE hash(h)
                  IN  IF id # entry.id
                      THEN [outcome |-> "false", at |-> i]
                      ELSE VerifyFrom_NoAdvance(last_hash, entries, i + 1)

\* verify whose match takes the None arm for every entry
RECURSIVE VerifyFrom_IgnoreMixin(_, _, _)
VerifyFrom_IgnoreMixin(last_hash, entries, i) ==
    IF i > Len(entries)
    THEN [outcome |-> "true", at |-> i]
    ELSE LET entry == entries[i]
         IN  IF entry.num_hashes = 0
             THEN [outcome |-> "panic", at |-> i]
             ELSE LET h == HashLoop(last_hash, entry.num_hashes - 1)
                      id == hash(h)
                  IN  IF id # entry.id
                      THEN [outcome |-> "false", at |-> i]
                      ELSE VerifyFrom_IgnoreMixin(id, entries, i + 1)

\* verify that looks at the entries after a mismatch before it answers
RECURSIVE VerifyFrom_NoShortCircuit(_, _, _)
VerifyFrom_NoShortCircuit(last_hash, entries, i) ==
    IF i > Len(entries)
    THEN [outcome |-> "true", at |-> i]
    ELSE LET entry == entries[i]
         IN  IF entry.num_hashes = 0
             THEN [outcome |-> "panic", at |-> i]
             ELSE LET h == HashLoop(last_hash, entry.num_hashes - 1)
                      id == IF entry.mixin # None
                            THEN hashv(h, entry.mixin[1])
                            ELSE hash(h)
                      rest == VerifyFrom_NoShortCircuit(id, entries, i + 1)
                  IN  IF id # entry.id
                      THEN IF rest.outcome = "panic" THEN rest
                           ELSE [outcome |-> "false", at |-> i]
                      ELSE rest

\* the loop over entries from entries[i] on; `at` is the entry it stopped at
RECURSIVE VerifyFrom(_, _, _)
VerifyFrom(last_hash, entries, i) ==
    IF i > Len(entries)
    THEN [outcome |-> "true", at |-> i]
    ELSE LET entry == entries[i]
         IN  IF entry.num_hashes = 0
             THEN [outcome |-> "panic", at |-> i]
             ELSE LET h == HashLoop(last_hash, entry.num_hashes - 1)
                      id == IF entry.mixin # None
                            THEN hashv(h, entry.mixin[1])
                            ELSE hash(h)
                  IN  IF id # entry.id
                      THEN [outcome |-> "false", at |-> i]
                      ELSE VerifyFrom(id, entries, i + 1)

verify(init, entries) == VerifyFrom(init, entries, 1)

----------------------------------------------------------------------------
(* The generator driven by its owner *)

\* a call, what it was given (the mixin of a record, the clock readings of a
\* tick) and what it returned
Call(op, arg, ret) == [op |-> op, arg |-> arg, ret |-> ret]

\* the clock readings of a tick: elapsed() and, when it emits, Instant::now()
Readings(t1, t2, ret) == IF ret # None THEN <<t1, t2>> ELSE <<t1>>

\* the entries the calls of a log returned, in order
Returned(l) ==
    LET s == SelectSeq(l, LAMBDA c : c.ret # None)
    IN  [i \in 1 .. Len(s) |-> s[i].ret[1]]

entries == Returned(log)

Intervals == {None} \cup {Some(d) : d \in 0 .. MaxInterval}

NoPoh == Poh_new(Base(0), None, 0)

GenIdle == /\ poh2 = NoPoh /\ now2 = 0 /\ log2 = <<>>
           /\ v_entries = <<>> /\ v_result = None

Init ==
    /\ initial \in Bases
    /\ overflow_checks \in BOOLEAN
    /\ now = 0
    /\ \E d \in Intervals : poh = Poh_new(initial, d, now)
    /\ log = <<>>
    /\ panicked = FALSE
    /\ GenIdle

CanCall == ~panicked /\ Len(log) < MaxCalls

Hash ==
    /\ CanCall
    /\ LET r == Poh_hash(poh, overflow_checks)
       IN  /\ poh' = r.poh
           /\ panicked' = r.panic
           /\ log' = Append(log, Call("hash", None, None))
    /\ UNCHANGED <<initial, overflow_checks, now, poh2, now2, log2, v_entries, v_result>>

Record(mixin) ==
    /\ CanCall
    /\ LET r == Poh_record(poh, mixin, overflow_checks)
       IN  /\ poh' = r.poh
           /\ panicked' = r.panic
           /\ log' = Append(log, Call("record", Some(mixin), r.ret))
    /\ UNCHANGED <<initial, overflow_checks, now, poh2, now2, log2, v_entries, v_result>>

\* the clock may move between the two reads of an emitting tick
Tick ==
    /\ CanCall
    /\ \E t2 \in {t \in {now, now + 1} : t <= MaxTime} :
         LET r == Poh_tick(poh, now, t2)
         IN  /\ poh' = r.poh
             /\ now' = IF r.ret # None THEN t2 ELSE now
             /\ log' = Append(log, Call("tick", Readings(now, t2, r.ret), r.ret))
    /\ UNCHANGED <<initial, overflow_checks, panicked, poh2, now2, log2, v_entries, v_result>>

ClockAdvance ==
    /\ now < MaxTime
    /\ now' = now + 1
    /\ UNCHANGED <<initial, overflow_checks, poh, log, panicked,
                   poh2, now2, log2, v_entries, v_result>>

Next ==
    \/ Hash
    \/ \E mixin \in Bases : Record(mixin)
    \/ Tick
    \/ ClockAdvance

Spec == Init /\ [][Next]_vars

----------------------------------------------------------------------------
(* verify handed slices of entries from an untrusted source *)

VerIdle == /\ overflow_checks = FALSE /\ poh = NoPoh /\ now = 0
           /\ log = <<>> /\ panicked = FALSE
           /\ poh2 = NoPoh /\ now2 = 0 /\ log2 = <<>>

\* the hash the next entry of a valid slice continues from
Cursor(init, es) == IF es = <<>> THEN init ELSE es[Len(es)].id

Mixins == {None} \cup {Some(m) : m \in Bases}

NumHashes == 0 .. MaxU64

\* ids an entry claiming num_hashes = c may carry: the c-th digest after
\* `from` on the plain path and on the mixin path, and the one after it
IdsNear(from, c) ==
    {Hashed(from, c), Hashed(from, c + 1)}
    \cup {hashv(Hashed(from, c - 1), m) : m \in IF c = 0 THEN {} ELSE Bases}

InitVerify ==
    /\ initial \in Bases
    /\ v_entries = <<>>
    /\ v_result = verify(initial, v_entries)
    /\ VerIdle

\* verify is called on the slice extended by one more entry
Forge(entry) ==
    /\ Len(v_entries) < MaxLen
    /\ v_entries' = Append(v_entries, entry)
    /\ v_result' = verify(initial, v_entries')
    /\ UNCHANGED <<initial, overflow_checks, poh, now, log, panicked, poh2, now2, log2>>

NextVerify ==
    \E c \in NumHashes, mixin \in Mixins :
        \E id \in IdsNear(Cursor(initial, v_entries), c) :
            Forge(PohEntry(c, id, mixin))

SpecVerify == InitVerify /\ [][NextVerify]_vars

----------------------------------------------------------------------------
(* Two independent runs driven by the same calls, each with its own clock *)

InitDet ==
    /\ initial \in Bases
    /\ overflow_checks \in BOOLEAN
    /\ now = 0 /\ now2 = 0
    /\ \E d \in Intervals : /\ poh = Poh_new(initial, d, now)
                             /\ poh2 = Poh_new(initial, d, now2)
    /\ log = <<>> /\ log2 = <<>>
    /\ panicked = FALSE
    /\ v_entries = <<>> /\ v_result = None

DetHash ==
    /\ CanCall
    /\ LET r == Poh_hash(poh, overflow_checks)
           r2 == Poh_hash(poh2, overflow_checks)
       IN  /\ poh' = r.poh /\ poh2' = r2.poh
           /\ panicked' = (r.panic \/ r2.panic)
           /\ log' = Append(log, Call("hash", None, None))
           /\ log2' = Append(log2, Call("hash", None, None))
    /\ UNCHANGED <<initial, overflow_checks, now, now2, v_entries, v_result>>

DetRecord(mixin) ==
    /\ CanCall
    /\ LET r == Poh_record(poh, mixin, overflow_checks)
           r2 == Poh_record(poh2, mixin, overflow_checks)
       IN  /\ poh' = r.poh /\ poh2' = r2.poh
           /\ panicked' = (r.panic \/ r2.panic)
           /\ log' = Append(log, Call("record", Some(mixin), r.ret))
           /\ log2' = Append(log2, Call("record", Some(mixin), r2.ret))
    /\ UNCHANGED <<initial, overflow_checks, now, now2, v_entries, v_result>>

DetTick ==
    /\ CanCall
    /\ \E t2 \in {t \in {now, now + 1} : t <= MaxTime},
          u2 \in {t \in {now2, now2 + 1} : t <= MaxTime} :
         LET r == Poh_tick(poh, now, t2)
             r2 == Poh_tick(poh2, now2, u2)
         IN  /\ poh' = r.poh /\ poh2' = r2.poh
             /\ now' = IF r.ret # None THEN t2 ELSE now
             /\ now2' = IF r2.ret # None THEN u2 ELSE now2
             /\ log' = Append(log, Call("tick", Readings(now, t2, r.ret), r.ret))
             /\ log2' = Append(log2, Call("tick", Readings(now2, u2, r2.ret), r2.ret))
    /\ UNCHANGED <<initial, overflow_checks, panicked, v_entries, v_result>>

DetClock ==
    /\ now < MaxTime
    /\ now' = now + 1
    /\ UNCHANGED <<initial, overflow_checks, poh, log, panicked,
                   poh2, now2, log2, v_entries, v_result>>

DetClock2 ==
    /\ now2 < MaxTime
    /\ now2' = now2 + 1
    /\ UNCHANGED <<initial, overflow_checks, poh, log, panicked,
                   poh2, now, log2, v_entries, v_result>>

NextDet ==
    \/ DetHash
    \/ \E mixin \in Bases : DetRecord(mixin)
    \/ DetTick
    \/ DetClock
    \/ DetClock2

SpecDet == InitDet /\ [][NextDet]_vars

----------------------------------------------------------------------------
(* Helpers of the properties *)

AllNonZero(es) == \A i \in 1 .. Len(es) : es[i].num_hashes # 0

HasZero(es) == \E i \in 1 .. Len(es) : es[i].num_hashes = 0

FirstZero(es) ==
    CHOOSE i \in 1 .. Len(es) :
        es[i].num_hashes = 0 /\ \A j \in 1 .. i - 1 : es[j].num_hashes # 0

Prefix(es, n) == SubSeq(es, 1, n)

\* k calls of Poh::hash in a row
RECURSIVE HashCalls(_, _, _)
HashCalls(p, k, checks) ==
    IF k = 0 THEN [poh |-> p, panic |-> FALSE]
    ELSE LET r == Poh_hash(p, checks)
         IN  IF r.panic THEN r ELSE HashCalls(r.poh, k - 1, checks)

\* es is what some sequence of hash, record and tick calls on p returns, under
\* a clock that lets every tick emit (ticks that return None change nothing)
RECURSIVE Producible(_, _, _)
Producible(p, es, checks) ==
    \/ es = <<>>
    \/ \E k \in 0 .. MaxCalls :
         LET q == HashCalls(p, k, checks)
         IN  /\ ~q.panic
             /\ \/ LET r == Poh_tick(q.poh, q.poh.last_tick, q.poh.last_tick)
                    IN  /\ r.ret = Some(Head(es))
                        /\ Producible(r.poh, Tail(es), checks)
                \/ \E m \in Bases :
                     LET r == Poh_record(q.poh, m, checks)
                     IN  /\ ~r.panic
                         /\ r.ret = Some(Head(es))
                         /\ Producible(r.poh, Tail(es), checks)

\* the last step of the behaviour was a call of op on poh
Called(op) == Len(log') = Len(log) + 1 /\ log'[Len(log')].op = op

Remove(es, i) == SubSeq(es, 1, i - 1) \o SubSeq(es, i + 1, Len(es))

Duplicate(es, i) == SubSeq(es, 1, i) \o SubSeq(es, i, Len(es))

Swap(es, i, j) == [es EXCEPT ![i] = es[j], ![j] = es[i]]

\* the values a forger may put in place of the id of entry i
OtherIds(es, i) ==
    (Bases \cup UNION {IdsNear(Cursor(initial, Prefix(es, i - 1)), c) : c \in NumHashes})
        \ {es[i].id}

\* es with one field of entry i replaced by a different value
TamperedAt(es, i) ==
    {[es EXCEPT ![i].id = v] : v \in OtherIds(es, i)}
    \cup {[es EXCEPT ![i].num_hashes = v] : v \in NumHashes \ {es[i].num_hashes}}
    \cup {[es EXCEPT ![i].mixin = v] : v \in Mixins \ {es[i].mixin}}

----------------------------------------------------------------------------
(* C1 .. C10 *)

\* C1: the entries returned by any sequence of hash, record and tick calls on
\* a generator created with `initial` pass verify(initial, entries).
C1_RoundTrip == verify(initial, entries).outcome = "true"

\* C2: for entries whose num_hashes are all non-zero, verify(initial, entries)
\* is true if and only if the entries are the output of some sequence of
\* hash, record and tick calls on a generator started from initial.
C2_ValidIffProducible ==
    AllNonZero(entries) =>
        (verify(initial, entries).outcome = "true"
            <=> Producible(Poh_new(initial, Some(0), 0), entries, overflow_checks))

\* C3 (as claimed): a slice with an entry of num_hashes = 0 at any position
\* makes verify report the malformed entry, and never return true.
C3_ZeroAlwaysReported == HasZero(v_entries) => v_result.outcome = "panic"

\* C3 (amended): a slice with an entry of num_hashes = 0 never verifies true;
\* verify reports the first such entry exactly when every entry before it
\* matches, and otherwise stops with false at an earlier, mismatching entry.
C3_ZeroNeverAccepted ==
    HasZero(v_entries) =>
        LET z == FirstZero(v_entries)
        IN  /\ v_result.outcome # "true"
            /\ v_result.outcome = "panic"
                 <=> verify(initial, Prefix(v_entries, z - 1)).outcome = "true"
            /\ v_result.outcome = "panic" => v_result.at = z
            /\ v_result.outcome = "false" => v_result.at < z

C3_Witness ==
    /\ Len(v_entries) = 2
    /\ v_entries[1].num_hashes # 0
    /\ v_entries[2].num_hashes = 0
    /\ v_result = [outcome |-> "panic", at |-> 2]

\* C4: verify always terminates normally, with true, false or a typed
\* malformed-entry error; it never aborts.
C4_NeverAborts == v_result.outcome \in {"true", "false", "malformed"}

\* C5 (as claimed): replacing one field of one entry of a slice that verifies
\* true by a different value makes verify return false.
C5_TamperReturnsFalse ==
    v_result.outcome = "true" =>
        \A i \in 1 .. Len(v_entries) : \A t \in TamperedAt(v_entries, i) :
            verify(initial, t).outcome = "false"

\* C5 (amended): replacing one field of entry i of a slice that verifies true
\* by a different value makes verify stop at entry i: with false, or, when
\* num_hashes was replaced by 0, with the malformed-entry panic.
C5_TamperDetected ==
    v_result.outcome = "true" =>
        \A i \in 1 .. Len(v_entries) : \A t \in TamperedAt(v_entries, i) :
            verify(initial, t) =
                [outcome |-> IF t[i].num_hashes = 0 THEN "panic" ELSE "false",
                 at |-> i]

C5_Witness ==
    /\ v_result.outcome = "true"
    /\ Len(v_entries) = 2
    /\ v_entries[1].mixin # None
    /\ v_entries[2].mixin = None
    /\ v_entries[2].num_hashes > 1

\* C6 (as claimed): removing any one entry of a non-empty slice that verifies
\* true, duplicating one in place, or swapping two, makes verify return false.
C6_AnyRemovalDetected ==
    (v_result.outcome = "true" /\ v_entries # <<>>) =>
        \A i \in 1 .. Len(v_entries) :
            /\ verify(initial, Remove(v_entries, i)).outcome = "false"
            /\ verify(initial, Duplicate(v_entries, i)).outcome = "false"
            /\ \A j \in i + 1 .. Len(v_entries) :
                 verify(initial, Swap(v_entries, i, j)).outcome = "false"

\* C6 (amended): in a non-empty slice that verifies true, removing any entry
\* but the last, duplicating any entry in place, or swapping any two entries
\* makes verify return false; removing the last entry leaves a slice that
\* verifies true.
C6_ReorderDetected ==
    (v_result.outcome = "true" /\ v_entries # <<>>) =>
        \A i \in 1 .. Len(v_entries) :
            /\ verify(initial, Remove(v_entries, i)).outcome =
                   IF i = Len(v_entries) THEN "true" ELSE "false"
            /\ verify(initial, Duplicate(v_entries, i)).outcome = "false"
            /\ \A j \in i + 1 .. Len(v_entries) :
                 verify(initial, Swap(v_entries, i, j)).outcome = "false"

C6_Witness ==
    /\ v_result.outcome = "true"
    /\ Len(v_entries) = 2
    /\ v_entries[1].mixin = None
    /\ v_entries[2].mixin # None

\* C7: two generators created alike and driven by the same calls return the
\* same thing from every call.
C7_Determinism ==
    \A i \in 1 .. Len(log) : log[i].ret = log2[i].ret

\* C8: an entry that follows a matching prefix is accepted exactly when its
\* id is hash(h) for mixin None, and hashv(h, m) for mixin Some(m), h being
\* the cursor hashed num_hashes - 1 times; an id computed on the other
\* branch is not accepted.
C8_MixinBranch ==
    LET n == Len(v_entries)
    IN  (/\ n >= 1
         /\ v_entries[n].num_hashes # 0
         /\ verify(initial, Prefix(v_entries, n - 1)).outcome = "true") =>
            LET e == v_entries[n]
                cursor == Cursor(initial, Prefix(v_entries, n - 1))
                h == Hashed(cursor, e.num_hashes - 1)
            IN  /\ v_result.outcome = "true"
                     <=> IF e.mixin = None THEN e.id = hash(h)
                         ELSE e.id = hashv(h, e.mixin[1])
                /\ (e.mixin # None /\ e.id = hash(h)) => v_result.outcome = "false"
                /\ (e.mixin = None /\ \E m \in Bases : e.id = hashv(h, m))
                     => v_result.outcome = "false"

C8_Witness ==
    /\ Len(v_entries) = 2
    /\ verify(initial, Prefix(v_entries, 1)).outcome = "true"
    /\ v_entries[2].num_hashes = 2
    /\ v_entries[2].mixin # None
    /\ v_entries[2].id = Hashed(v_entries[1].id, 2)
    /\ v_result = [outcome |-> "false", at |-> 2]

\* C9: record(mixin) called with last_hash = h and num_hashes = p returns
\* PohEntry{num_hashes: p + 1, id: hashv(h, mixin), mixin: Some(mixin)} and
\* leaves last_hash = hashv(h, mixin), num_hashes = 0, and the rest as it was.
C9_Record ==
    [][\A m \in Bases :
         (Called("record") /\ log'[Len(log')].arg = Some(m)) =>
            /\ log'[Len(log')].ret =
                   Some(PohEntry(poh.num_hashes + 1, hashv(poh.last_hash, m), Some(m)))
            /\ poh' = [poh EXCEPT !.last_hash = hashv(poh.last_hash, m),
                                  !.num_hashes = 0]]_vars

\* C10: hash() cannot fail: it sets last_hash to hash(last_hash), adds
\* exactly 1 to num_hashes, and leaves last_tick and tick_duration alone.
C10_Hash ==
    [][Called("hash") =>
         /\ ~panicked'
         /\ poh' = [poh EXCEPT !.last_hash = hash(poh.last_hash),
                               !.num_hashes = poh.num_hashes + 1]]_vars

----------------------------------------------------------------------------
(* C11 .. C20 *)

\* the last call of the log, and whether the tick now being called is due
LastCall == log[Len(log)]

TickDue == poh.tick_duration # None /\ now - poh.last_tick >= poh.tick_duration[1]

\* C11: a tick() called with no tick_duration configured, or before
\* tick_duration has elapsed since last_tick, returns None and leaves
\* last_hash, num_hashes, last_tick and tick_duration as they were.
C11_TickNoEmission ==
    [][(Called("tick") /\ ~TickDue) =>
          /\ log'[Len(log')].ret = None
          /\ poh' = poh]_vars

C11_Witness ==
    /\ log # <<>>
    /\ LastCall.op = "tick"
    /\ LastCall.ret = None
    /\ poh.tick_duration # None
    /\ poh.num_hashes > 0

\* C12: a tick() called with tick_duration configured and elapsed returns
\* PohEntry{num_hashes as before the call, id: last_hash, mixin: None},
\* applies no hash, sets num_hashes to 0 and last_tick to the current instant.
C12_TickEmission ==
    [][(Called("tick") /\ TickDue) =>
          /\ log'[Len(log')].ret = Some(PohEntry(poh.num_hashes, poh.last_hash, None))
          /\ poh' = [poh EXCEPT !.num_hashes = 0, !.last_tick = now']]_vars

C12_Witness ==
    /\ log # <<>>
    /\ LastCall.op = "tick"
    /\ LastCall.ret # None
    /\ LastCall.ret[1].num_hashes = 2
    /\ poh.last_tick = 2
    /\ poh.num_hashes = 0

\* the ticks of a log that emitted an entry
Emits(l) == {i \in 1 .. Len(l) : l[i].op = "tick" /\ l[i].ret # None}

Latest(S) == CHOOSE i \in S : \A k \in S : k <= i

\* the instant the timer was last restarted before call j: by the latest
\* emitting tick, or by Poh::new
ResetTime(l, j) ==
    LET E == {i \in Emits(l) : i < j}
    IN  IF E = {} THEN 0 ELSE l[Latest(E)].arg[2]

\* C13: with tick_duration configured, a tick() returns an entry exactly when
\* tick_duration has elapsed since the generator was created or since the
\* latest emitting tick, whatever hash and record calls came in between; so
\* two ticks that emit are at least tick_duration apart.
C13_Gating ==
    poh.tick_duration # None =>
        \A j \in 1 .. Len(log) :
            log[j].op = "tick" =>
                /\ log[j].ret # None
                     <=> log[j].arg[1] - ResetTime(log, j) >= poh.tick_duration[1]
                /\ log[j].ret # None =>
                     \A i \in {k \in Emits(log) : k < j} :
                         log[j].arg[1] - log[i].arg[1] >= poh.tick_duration[1]

C13_Witness ==
    /\ poh.tick_duration = Some(1)
    /\ Len(log) = 4
    /\ log[1].op = "tick" /\ log[1].ret = None
    /\ log[2].op = "tick" /\ log[2].ret # None
    /\ log[3].op = "record"
    /\ log[4].op = "tick" /\ log[4].ret # None

\* C14: every entry returned by record or tick has num_hashes # 0.
C14_EntriesNonZero == AllNonZero(entries)

\* the number of hash and hashv applications a digest was built with
RECURSIVE Depth(_)
Depth(x) == x[1] + IF Len(x[2]) = 1 THEN 0 ELSE 1 + Depth(x[2][1])

\* the calls that count as steps: hash, record, and the ticks that emitted
Steps(l) ==
    {i \in 1 .. Len(l) : l[i].op \in {"hash", "record"}} \cup Emits(l)

\* the chain replayed from x over the calls of l: hash for a hash call,
\* hashv with the mixin for a record that returned its entry, nothing else
RECURSIVE Replay(_, _)
Replay(x, l) ==
    IF l = <<>> THEN x
    ELSE LET c == Head(l)
             y == IF c.op = "hash" THEN hash(x)
                  ELSE IF c.op = "record" /\ c.ret # None THEN hashv(x, c.arg[1])
                  ELSE x
         IN  Replay(y, Tail(l))

\* C15 (as claimed): last_hash is reached from the initial hash by as many
\* transformations as hash, record and tick steps were performed.
C15_HeadCountsAllSteps ==
    Depth(poh.last_hash) = Depth(initial) + Cardinality(Steps(log))

\* C15 (amended): last_hash is the initial hash transformed by hash once for
\* every hash call and by hashv with the mixin once for every record call
\* that returned its entry, in call order; a tick transforms nothing.
C15_HeadReplay == poh.last_hash = Replay(initial, log)

C15_Witness ==
    /\ Len(log) = 4
    /\ log[1].op = "hash"
    /\ log[2].op = "tick" /\ log[2].ret # None
    /\ log[3].op = "record"
    /\ log[4].op = "tick" /\ log[4].ret # None

\* the calls of a log that returned an entry
Returns(l) == {i \in 1 .. Len(l) : l[i].ret # None}

\* the hash calls made after the latest call that returned an entry
HashesSinceEntry(l) ==
    LET from == IF Returns(l) = {} THEN 0 ELSE Latest(Returns(l))
    IN  {i \in from + 1 .. Len(l) : l[i].op = "hash"}

\* the id of the latest entry returned, or the initial hash
LatestId(l) ==
    IF Returns(l) = {} THEN initial ELSE l[Latest(Returns(l))].ret[1].id

\* C16: num_hashes is the number of hash calls made since the latest entry
\* was returned (or since creation), a call that returns an entry leaves
\* num_hashes = 0, and last_hash is the latest entry's id (or the initial
\* hash) hashed num_hashes times.
C16_PendingCount ==
    /\ poh.num_hashes = Cardinality(HashesSinceEntry(log))
    /\ poh.last_hash = Hashed(LatestId(log), poh.num_hashes)
    /\ (log # <<>> /\ LastCall.ret # None) => poh.num_hashes = 0

RECURSIVE SumHashes(_)
SumHashes(es) == IF es = <<>> THEN 0 ELSE Head(es).num_hashes + SumHashes(Tail(es))

\* C20: the num_hashes of all entries returned so far plus the current
\* num_hashes add up to the number of hash calls plus record calls made.
C20_WorkConserved ==
    SumHashes(entries) + poh.num_hashes
        = Cardinality({i \in 1 .. Len(log) : log[i].op \in {"hash", "record"}})

ExpectedId(last_hash, entry) ==
    LET h == HashLoop(last_hash, entry.num_hashes - 1)
    IN  IF entry.mixin # None THEN hashv(h, entry.mixin[1]) ELSE hash(h)

\* entry i of the slice passes the assert and its recomputed id equals its id
EntryMatches(init, es, i) ==
    /\ es[i].num_hashes # 0
    /\ ExpectedId(Cursor(init, Prefix(es, i - 1)), es[i]) = es[i].id

\* entry i of the slice passes the assert and its recomputed id differs
EntryDiffers(init, es, i) ==
    /\ es[i].num_hashes # 0
    /\ ExpectedId(Cursor(init, Prefix(es, i - 1)), es[i]) # es[i].id

\* C18: verify takes the entries in order and returns false at the first one
\* whose recomputed id differs from its id, whatever the later entries are
\* (the answer is that of the slice cut after that entry); it returns true
\* exactly when every entry matched, and true for the empty slice.
C18_ShortCircuit ==
    LET n == Len(v_entries)
        First(i) == /\ \A j \in 1 .. i - 1 : EntryMatches(initial, v_entries, j)
                    /\ EntryDiffers(initial, v_entries, i)
    IN  /\ v_entries = <<>> => v_result.outcome = "true"
        /\ v_result.outcome = "true"
             <=> \A i \in 1 .. n : EntryMatches(initial, v_entries, i)
        /\ \A i \in 1 .. n :
             First(i) => /\ v_result = [outcome |-> "false", at |-> i]
                         /\ v_result = verify(initial, Prefix(v_entries, i))
        /\ v_result.outcome = "false" => First(v_result.at)

C18_Witness ==
    /\ Len(v_entries) = 2
    /\ EntryDiffers(initial, v_entries, 1)
    /\ v_entries[2].num_hashes = 0
    /\ v_result = [outcome |-> "false", at |-> 1]


\* C19: for a slice whose counts are all non-zero and every split of it into
\* a non-empty front A and a rest B, verify(initial, A ++ B) is true exactly
\* when verify(initial, A) and verify(id of the last entry of A, B) both are.
C19_SegmentComposition ==
    AllNonZero(v_entries) =>
        \A k \in 1 .. Len(v_entries) :
            LET A == Prefix(v_entries, k)
                B == SubSeq(v_entries, k + 1, Len(v_entries))
            IN  /\ v_result.outcome \in {"true", "false"}
                /\ v_result.outcome = "true"
                     <=> /\ verify(initial, A).outcome = "true"
                         /\ verify(A[Len(A)].id, B).outcome = "true"

C19_Witness ==
    /\ Len(v_entries) = 2
    /\ AllNonZero(v_entries)
    /\ v_entries[2].mixin # None
    /\ verify(initial, Prefix(v_entries, 1)).outcome = "true"
    /\ verify(v_entries[1].id, SubSeq(v_entries, 2, 2)).outcome = "true"
    /\ v_result.outcome = "true"

=============================================================================
